---- MODULE Spec2Model ----
(***************************************************************************)
(* A model of build.py, the image build script of pangeo-stacks.           *)
(*                                                                         *)
(* One run of main() is modelled: the arguments, the git history of the   *)
(* working directory, the files of the checkout and the content of the    *)
(* docker registry are the inputs (chosen in Init); the answers of the    *)
(* registry, the exit statuses of the subprocesses and the reading of the *)
(* clock are chosen at the step that asks for them.                       *)
(***************************************************************************)
EXTENDS Integers, Sequences, FiniteSets, TLC

VARIABLES
    argv,                 \* sys.argv[1:]
    args,                 \* the namespace argparse returns
    commits,              \* commit dates of 'git log -- .', most recent first
    fs,                   \* the paths that exist in the checkout
    registry,             \* the image specs that exist in the docker registry
    pc,                   \* where main() is: probe, build, onbuild, done, failed
    error,                \* the exception that ended the run ("" when none)
    i,                    \* the loop variable of the probe loop (0: not yet bound)
    date,                 \* local 'date' of the probe loop
    existing_image_spec,  \* local 'existing_image_spec' of the probe loop
    cache_from,           \* local 'cache_from'
    calver,               \* local 'calver' ("" before it is computed)
    lru,                  \* the lru_cache of image_exists_in_registry, least recent first
    requests,             \* the image specs asked of the registry, in order
    response,             \* the last answer of client.images.get_registry_data
    calls                 \* the subprocess and repo2docker invocations, in order

vars == <<argv, args, commits, fs, registry, pc, error, i, date,
          existing_image_spec, cache_from, calver, lru, requests, response, calls>>

(***************************************************************************)
(* Bounds of the model and program constants.                              *)
(***************************************************************************)
MaxCommits == 2

RangeStart == 1

\* The loop bound taken as inclusive.
RangeStop_inclusive == 100 + 1

RangeStop == 100

LruMaxSize == 128

UserId == 1000

(***************************************************************************)
(* Inputs.                                                                 *)
(***************************************************************************)
Image == "base-notebook"

ArgvSet ==
    { <<Image>>,
      <<"--push", Image>>,
      <<"--image-prefix", "quay.io/pangeo/", Image>> }

\* Commit dates as 'git log --date=iso' prints them: local time and UTC offset
\* (in minutes).  The first two are the same UTC day, written in two zones.
CommitDates ==
    { [year |-> 2019, month |-> 12, day |-> 31, hour |-> 22, minute |-> 0,
       utcoffset |-> -300],
      [year |-> 2020, month |-> 1, day |-> 1, hour |-> 10, minute |-> 0,
       utcoffset |-> 60],
      [year |-> 2020, month |-> 3, day |-> 1, hour |-> 1, minute |-> 30,
       utcoffset |-> 330] }

\* Readings of the clock, as datetime.utcnow() returns them.
ClockReadings ==
    { [year |-> 2020, month |-> 3, day |-> 1, hour |-> 0, minute |-> 30,
       utcoffset |-> 0],
      [year |-> 2020, month |-> 11, day |-> 5, hour |-> 12, minute |-> 0,
       utcoffset |-> 0] }

\* Tags a registry may hold for the image.
RegistryTags == { "2019.12.31", "2020.01.01", "2020.02.29" }

ImageFiles ==
    { "base-notebook/Dockerfile",
      "base-notebook/binder/Dockerfile",
      "base-notebook/binder/verify" }

NoDate ==
    [year |-> 0, month |-> 0, day |-> 0, hour |-> 0, minute |-> 0, utcoffset |-> 0]

NoResponse == [image_spec |-> "", kind |-> "", explanation |-> ""]

RECURSIVE SeqsUpTo(_, _)
SeqsUpTo(S, n) ==
    IF n = 0 THEN { <<>> }
    ELSE LET shorter == SeqsUpTo(S, n - 1)
         IN  shorter \cup { Append(s, x) : s \in shorter, x \in S }

(***************************************************************************)
(* argparse, os.path, str.                                                 *)
(***************************************************************************)
RECURSIVE parse_args_from(_, _)
parse_args_from(av, ns) ==
    IF av = <<>> THEN ns
    ELSE IF Head(av) = "--push"
         THEN parse_args_from(Tail(av), [ns EXCEPT !.push = TRUE])
    ELSE IF Head(av) = "--image-prefix"
         THEN parse_args_from(Tail(Tail(av)), [ns EXCEPT !.image_prefix = av[2]])
    ELSE parse_args_from(Tail(av), [ns EXCEPT !.image = Head(av)])

parse_args(av) ==
    parse_args_from(av, [image |-> "", image_prefix |-> "pangeo/", push |-> FALSE])

path_join(a, b) == a \o "/" \o b

path_exists(p) == p \in fs

startswith(s, prefix) ==
    /\ Len(s) >= Len(prefix)
    /\ SubSeq(s, 1, Len(prefix)) = prefix

(***************************************************************************)
(* Dates: astimezone(pytz.utc) and strftime('%Y.%m.%d').                   *)
(***************************************************************************)
IsLeap(y) == (y % 4 = 0 /\ y % 100 # 0) \/ y % 400 = 0

DaysInMonth(y, m) ==
    IF m = 2 THEN (IF IsLeap(y) THEN 29 ELSE 28)
    ELSE IF m \in {4, 6, 9, 11} THEN 30 ELSE 31

PrevDay(d) ==
    IF d.day > 1 THEN [d EXCEPT !.day = d.day - 1]
    ELSE IF d.month > 1
         THEN [d EXCEPT !.month = d.month - 1,
                        !.day = DaysInMonth(d.year, d.month - 1)]
    ELSE [d EXCEPT !.year = d.year - 1, !.month = 12, !.day = 31]

NextDay(d) ==
    IF d.day < DaysInMonth(d.year, d.month) THEN [d EXCEPT !.day = d.day + 1]
    ELSE IF d.month < 12 THEN [d EXCEPT !.month = d.month + 1, !.day = 1]
    ELSE [d EXCEPT !.year = d.year + 1, !.month = 1, !.day = 1]

\* The commit date formatted in its own zone, without the conversion.
astimezone_skipped(d) == d

astimezone_utc(d) ==
    LET t   == d.hour * 60 + d.minute - d.utcoffset
        day == IF t < 0 THEN PrevDay(d)
               ELSE IF t >= 1440 THEN NextDay(d) ELSE d
        tm  == t % 1440
    IN  [day EXCEPT !.hour = tm \div 60, !.minute = tm % 60, !.utcoffset = 0]

RECURSIVE zfill(_, _)
zfill(s, width) == IF Len(s) >= width THEN s ELSE zfill("0" \o s, width)

strftime(d) ==
    zfill(ToString(d.year), 4) \o "." \o zfill(ToString(d.month), 2)
        \o "." \o zfill(ToString(d.day), 2)

(***************************************************************************)
(* modified_date(n, '.'): the last line of 'git log -n n', which is the    *)
(* n-th most recent commit, or the oldest one when there are fewer than n. *)
(***************************************************************************)
\* The first line of the log instead of the last.
modified_date_first_line(n) == commits[1]

modified_date(n) == commits[IF n <= Len(commits) THEN n ELSE Len(commits)]

image_name == args.image_prefix \o args.image

existing_calver(d) == strftime(astimezone_utc(d))

candidate_spec(d) == image_name \o ":" \o existing_calver(d)

(***************************************************************************)
(* The registry client and image_exists_in_registry with its lru_cache.   *)
(***************************************************************************)
\* What client.images.get_registry_data(image_spec) can answer.
get_registry_data(image_spec) ==
    (IF image_spec \in registry
     THEN { [image_spec |-> image_spec, kind |-> "manifest", explanation |-> ""] }
     ELSE { [image_spec |-> image_spec, kind |-> "ImageNotFound", explanation |-> ""],
            [image_spec |-> image_spec, kind |-> "APIError",
             explanation |-> "manifest unknown: manifest unknown"] })
    \cup { [image_spec |-> image_spec, kind |-> "APIError",
            explanation |-> "unauthorized: authentication required"] }

\* Every API error taken as 'not found'.
image_exists_body_swallow(r) ==
    IF r.kind = "manifest" THEN "True" ELSE "False"

\* The body of image_exists_in_registry: "True", "False" or "raise".
image_exists_body(r) ==
    IF r.kind = "manifest" THEN "True"
    ELSE IF r.kind = "ImageNotFound" THEN "False"
    ELSE IF startswith(r.explanation, "manifest unknown: ") THEN "False"
    ELSE "raise"

lru_keys == { lru[k][1] : k \in 1..Len(lru) }

lru_get(key) == (CHOOSE k \in 1..Len(lru) : lru[k][1] = key)

lru_without(k) == SubSeq(lru, 1, k - 1) \o SubSeq(lru, k + 1, Len(lru))

\* A hit moves the entry to the most recent end.
lru_touch(key) == Append(lru_without(lru_get(key)), lru[lru_get(key)])

\* No caching: the result is not stored.
lru_put_discard(key, value) == lru

\* A miss stores the result, evicting the least recent entry of a full cache.
lru_put(key, value) ==
    IF LruMaxSize = 0 THEN lru
    ELSE IF Len(lru) >= LruMaxSize THEN Append(Tail(lru), <<key, value>>)
    ELSE Append(lru, <<key, value>>)

\* The outcomes of image_exists_in_registry(client, image_spec):
\* from the cache, or from a request to the registry.
image_exists_in_registry(image_spec) ==
    IF image_spec \in lru_keys
    THEN { [result |-> lru[lru_get(image_spec)][2], requested |-> FALSE,
            response |-> response, lru |-> lru_touch(image_spec)] }
    ELSE { [result |-> image_exists_body(r), requested |-> TRUE, response |-> r,
            lru |-> IF image_exists_body(r) = "raise" THEN lru
                    ELSE lru_put(image_spec, image_exists_body(r))] :
           r \in get_registry_data(image_spec) }

(***************************************************************************)
(* Subprocesses and builders.                                              *)
(***************************************************************************)
NoR2d ==
    [subdir |-> "", output_image_spec |-> "", user_id |-> 0, user_name |-> "",
     cache_from |-> <<>>]

\* subprocess.call: the exit status is ignored.
check_call_unchecked(ok) == ""

\* subprocess.check_call raises CalledProcessError on a non-zero exit status.
check_call(ok) == IF ok THEN "" ELSE "CalledProcessError"

subprocess(command, ok) ==
    [kind |-> "subprocess", command |-> command, r2d |-> NoR2d, ok |-> ok]

docker_pull_command(image_spec) == <<"docker", "pull", image_spec>>

docker_build_df_path(path) ==
    IF path_exists(path_join(path, "Dockerfile"))
    THEN path_join(path, "Dockerfile")
    ELSE path_join(path_join(path, "binder"), "Dockerfile")

\* build_args is a sequence of <<key, value>> pairs.
RECURSIVE build_arg_flags(_)
build_arg_flags(build_args) ==
    IF build_args = <<>> THEN <<>>
    ELSE <<"--build-arg", Head(build_args)[1] \o "=" \o Head(build_args)[2]>>
            \o build_arg_flags(Tail(build_args))

docker_build_command(image_spec, path, build_args) ==
    <<"docker", "build", "-t", image_spec, "-f", docker_build_df_path(path)>>
        \o build_arg_flags(build_args) \o <<path>>

r2d_config(image, image_spec, cf) ==
    [subdir |-> image, output_image_spec |-> image_spec, user_id |-> UserId,
     user_name |-> "jovyan", cache_from |-> cf]

r2d_invocation(image, image_spec, cf, ok) ==
    [kind |-> "repo2docker", command |-> <<>>,
     r2d |-> r2d_config(image, image_spec, cf), ok |-> ok]

r2d_has_verify(image) == path_exists(path_join(image, "binder/verify"))

docker_run_verify_command(image_spec) ==
    <<"docker", "run", "-i", "-t", image_spec, "binder/verify">>

dockerfile_paths ==
    << path_join(path_join(args.image, "binder"), "Dockerfile"),
       path_join(args.image, "Dockerfile") >>

\* Only <image>/Dockerfile is looked for.
any_dockerfile_top_only == path_exists(path_join(args.image, "Dockerfile"))

any_dockerfile == \E k \in 1..Len(dockerfile_paths) : path_exists(dockerfile_paths[k])

utcnow_calver(now) == strftime(now)

primary_image_spec(cv) == image_name \o ":" \o cv

onbuild_image_spec(cv) == image_name \o "-onbuild:" \o cv

\* The base image named without its version tag.
onbuild_build_args_untagged(cv) == << <<"BASE_IMAGE_SPEC", image_name>> >>

onbuild_build_args(cv) == << <<"BASE_IMAGE_SPEC", image_name \o ":" \o cv>> >>

(***************************************************************************)
(* The run.                                                                *)
(***************************************************************************)
Init ==
    /\ argv \in ArgvSet
    /\ args = parse_args(argv)
    /\ commits \in SeqsUpTo(CommitDates, MaxCommits)
    /\ fs \in { s \cup {"onbuild/Dockerfile"} : s \in SUBSET ImageFiles }
    /\ registry \in SUBSET { parse_args(argv).image_prefix \o parse_args(argv).image
                               \o ":" \o t : t \in RegistryTags }
    /\ pc = "probe"
    /\ error = ""
    /\ i = RangeStart - 1
    /\ date = NoDate
    /\ existing_image_spec = ""
    /\ cache_from = <<>>
    /\ calver = ""
    /\ lru = <<>>
    /\ requests = <<>>
    /\ response = NoResponse
    /\ calls = <<>>

inputs == <<argv, args, commits, fs, registry>>

\* The probe loop has another iteration to run.
ProbeIteration == pc = "probe" /\ i + 1 < RangeStop

\* Where the run is after iteration n found nothing.
after_miss(n) == IF n + 1 < RangeStop THEN "probe" ELSE "build"

\* modified_date raises: git printed no commit date, and parse('') fails.
ProbeNoDate ==
    /\ ProbeIteration
    /\ commits = <<>>
    /\ i' = i + 1
    /\ pc' = "failed"
    /\ error' = "ParserError"
    /\ UNCHANGED <<inputs, date, existing_image_spec, cache_from, calver, lru,
                   requests, response, calls>>

\* An iteration whose candidate image is not in the registry.
ProbeMiss ==
    /\ ProbeIteration
    /\ commits # <<>>
    /\ \E out \in image_exists_in_registry(candidate_spec(modified_date(i + 1))) :
          /\ out.result = "False"
          /\ i' = i + 1
          /\ date' = modified_date(i + 1)
          /\ existing_image_spec' = candidate_spec(modified_date(i + 1))
          /\ lru' = out.lru
          /\ response' = out.response
          /\ requests' = IF out.requested
                         THEN Append(requests, candidate_spec(modified_date(i + 1)))
                         ELSE requests
          /\ pc' = after_miss(i + 1)
    /\ UNCHANGED <<inputs, error, cache_from, calver, calls>>

\* An iteration whose candidate image exists: it is pulled and the loop ends.
ProbeHit ==
    /\ ProbeIteration
    /\ commits # <<>>
    /\ \E out \in image_exists_in_registry(candidate_spec(modified_date(i + 1))),
          ok \in BOOLEAN :
          /\ out.result = "True"
          /\ i' = i + 1
          /\ date' = modified_date(i + 1)
          /\ existing_image_spec' = candidate_spec(modified_date(i + 1))
          /\ lru' = out.lru
          /\ response' = out.response
          /\ requests' = IF out.requested
                         THEN Append(requests, candidate_spec(modified_date(i + 1)))
                         ELSE requests
          /\ cache_from' = << candidate_spec(modified_date(i + 1)) >>
          /\ calls' = Append(calls,
                 subprocess(docker_pull_command(candidate_spec(modified_date(i + 1))), ok))
          /\ error' = check_call(ok)
          /\ pc' = IF check_call(ok) = "" THEN "build" ELSE "failed"
    /\ UNCHANGED <<inputs, calver>>

\* An iteration whose registry lookup raises.
ProbeRaise ==
    /\ ProbeIteration
    /\ commits # <<>>
    /\ \E out \in image_exists_in_registry(candidate_spec(modified_date(i + 1))) :
          /\ out.result = "raise"
          /\ i' = i + 1
          /\ date' = modified_date(i + 1)
          /\ existing_image_spec' = candidate_spec(modified_date(i + 1))
          /\ lru' = out.lru
          /\ response' = out.response
          /\ requests' = IF out.requested
                         THEN Append(requests, candidate_spec(modified_date(i + 1)))
                         ELSE requests
          /\ pc' = "failed"
          /\ error' = "APIError"
    /\ UNCHANGED <<inputs, cache_from, calver, calls>>

\* The primary build when the image has a Dockerfile: docker_build.
DockerBuildPrimary ==
    /\ pc = "build"
    /\ any_dockerfile
    /\ \E now \in ClockReadings, ok \in BOOLEAN :
          /\ calver' = utcnow_calver(now)
          /\ calls' = Append(calls,
                 subprocess(docker_build_command(primary_image_spec(utcnow_calver(now)),
                                                 args.image,
                                                 << <<"CALVER", utcnow_calver(now)>> >>),
                            ok))
          /\ error' = check_call(ok)
          /\ pc' = IF check_call(ok) = "" THEN "onbuild" ELSE "failed"
    /\ UNCHANGED <<inputs, i, date, existing_image_spec, cache_from, lru, requests,
                   response>>

\* What r2d_build runs after a successful build: the verify script, if any.
r2d_verify_calls(image, image_spec, verify_ok) ==
    IF r2d_has_verify(image)
    THEN << subprocess(docker_run_verify_command(image_spec), verify_ok) >>
    ELSE <<>>

r2d_verify_error(image, verify_ok) ==
    IF r2d_has_verify(image) THEN check_call(verify_ok) ELSE ""

\* The primary build otherwise: r2d_build, which also runs the verify script.
R2dBuild ==
    /\ pc = "build"
    /\ ~any_dockerfile
    /\ \E now \in ClockReadings, ok \in BOOLEAN, verify_ok \in BOOLEAN :
          /\ calver' = utcnow_calver(now)
          /\ ~r2d_has_verify(args.image) => verify_ok
          /\ ~ok => verify_ok
          /\ calls' = Append(calls,
                         r2d_invocation(args.image,
                                        primary_image_spec(utcnow_calver(now)),
                                        cache_from, ok))
                      \o (IF ok
                          THEN r2d_verify_calls(args.image,
                                                primary_image_spec(utcnow_calver(now)),
                                                verify_ok)
                          ELSE <<>>)
          /\ error' = IF ~ok THEN "BuildError"
                      ELSE r2d_verify_error(args.image, verify_ok)
          /\ pc' = IF ok /\ r2d_verify_error(args.image, verify_ok) = ""
                   THEN "onbuild" ELSE "failed"
    /\ UNCHANGED <<inputs, i, date, existing_image_spec, cache_from, lru, requests,
                   response>>

\* The onbuild image: docker_build on the directory 'onbuild'.
OnbuildBuild ==
    /\ pc = "onbuild"
    /\ \E ok \in BOOLEAN :
          /\ calls' = Append(calls,
                 subprocess(docker_build_command(onbuild_image_spec(calver), "onbuild",
                                                 onbuild_build_args(calver)),
                            ok))
          /\ error' = check_call(ok)
          /\ pc' = IF check_call(ok) = "" THEN "done" ELSE "failed"
    /\ UNCHANGED <<inputs, i, date, existing_image_spec, cache_from, calver, lru,
                   requests, response>>

Next ==
    \/ ProbeNoDate
    \/ ProbeMiss
    \/ ProbeHit
    \/ ProbeRaise
    \/ DockerBuildPrimary
    \/ R2dBuild
    \/ OnbuildBuild

Spec == Init /\ [][Next]_vars

(***************************************************************************)
(* Reading the record of invocations.                                      *)
(***************************************************************************)
IsCommand(c, name) ==
    /\ c.kind = "subprocess"
    /\ Len(c.command) >= 2
    /\ c.command[1] = "docker"
    /\ c.command[2] = name

IsPull(c) == IsCommand(c, "pull")

IsPush(c) == IsCommand(c, "push")

IsVerifyRun(c) == IsCommand(c, "run")

IsDockerBuild(c) == IsCommand(c, "build")

IsR2dBuild(c) == c.kind = "repo2docker"

\* The directory a 'docker build' command is given, its last word.
BuildPath(c) == c.command[Len(c.command)]

IsOnbuildBuild(c) == IsDockerBuild(c) /\ BuildPath(c) = "onbuild"

IsPrimaryDockerBuild(c) == IsDockerBuild(c) /\ BuildPath(c) # "onbuild"

IsPrimaryBuild(c) == IsPrimaryDockerBuild(c) \/ IsR2dBuild(c)

\* The image spec a build produces.
BuiltSpec(c) == IF IsR2dBuild(c) THEN c.r2d.output_image_spec ELSE c.command[4]

Calls(P(_)) == { k \in 1..Len(calls) : P(calls[k]) }

Finished == pc \in {"done", "failed"}

\* The n-th candidate of the probe loop, read off the git history.
CommitAt(n) == commits[IF n <= Len(commits) THEN n ELSE Len(commits)]

CandidateAt(n) == candidate_spec(CommitAt(n))

(***************************************************************************)
(* C1: with --push a run that completes its builds has pushed the built    *)
(* image to the registry; without --push nothing is pushed.                *)
(* The code never reads args.push, so the first half fails.                *)
(***************************************************************************)
PushRequested == \E k \in 1..Len(argv) : argv[k] = "--push"

C1_PushIffRequested ==
    /\ (pc = "done" /\ PushRequested) => Calls(IsPush) # {}
    /\ ~PushRequested => Calls(IsPush) = {}

(***************************************************************************)
(* C2: once the primary build is reached exactly one backend has been      *)
(* invoked for '<image_name>:<calver>': docker_build with the build        *)
(* argument CALVER=<calver> and no r2d_build when <image>/Dockerfile or    *)
(* <image>/binder/Dockerfile exists; otherwise r2d_build with cache_from   *)
(* the list holding the pulled image (empty when none) and no docker_build *)
(* of the primary image.                                                   *)
(***************************************************************************)
HasDockerfile ==
    \/ (Image \o "/Dockerfile") \in fs
    \/ (Image \o "/binder/Dockerfile") \in fs

PulledSpecs == [ k \in 1..Cardinality(Calls(IsPull)) |->
                   calls[CHOOSE j \in Calls(IsPull) :
                           Cardinality({ m \in Calls(IsPull) : m < j }) = k - 1].command[3] ]

C2_ExactlyOneBackend ==
    calver # "" =>
        IF HasDockerfile
        THEN /\ Calls(IsR2dBuild) = {}
             /\ Cardinality(Calls(IsPrimaryDockerBuild)) = 1
             /\ \A k \in Calls(IsPrimaryDockerBuild) :
                   /\ BuiltSpec(calls[k]) = image_name \o ":" \o calver
                   /\ Len(calls[k].command) = 9
                   /\ calls[k].command[7] = "--build-arg"
                   /\ calls[k].command[8] = "CALVER=" \o calver
                   /\ BuildPath(calls[k]) = Image
        ELSE /\ Calls(IsPrimaryDockerBuild) = {}
             /\ Cardinality(Calls(IsR2dBuild)) = 1
             /\ \A k \in Calls(IsR2dBuild) :
                   /\ BuiltSpec(calls[k]) = image_name \o ":" \o calver
                   /\ calls[k].r2d.subdir = Image
                   /\ calls[k].r2d.cache_from = PulledSpecs

C2_Witness ==
    \E k \in Calls(IsR2dBuild) : calls[k].r2d.cache_from # <<>>

(***************************************************************************)
(* C3: the probe loop examines the candidates n = 1, 2, ... in that order  *)
(* and stops at the first one that exists in the registry: that image is   *)
(* the only one pulled, cache_from is the list holding it, no candidate    *)
(* after it is looked up and no candidate before it existed.  When no      *)
(* candidate exists nothing is pulled and cache_from stays empty.          *)
(***************************************************************************)
C3_FirstMatchOnly ==
    /\ (i >= RangeStart /\ commits # <<>>) => existing_image_spec = CandidateAt(i)
    /\ \A k \in 1..Len(requests) : \E n \in 1..i : requests[k] = CandidateAt(n)
    /\ cache_from # <<>> =>
          /\ i >= RangeStart
          /\ cache_from = << CandidateAt(i) >>
          /\ CandidateAt(i) \in registry
          /\ \A n \in 1..(i - 1) : CandidateAt(n) \notin registry
          /\ Cardinality(Calls(IsPull)) = 1
          /\ \A k \in Calls(IsPull) : calls[k].command = <<"docker", "pull", CandidateAt(i)>>
          /\ pc # "probe"
    /\ cache_from = <<>> => Calls(IsPull) = {}
    /\ (commits # <<>> /\ \A n \in 1..Len(commits) : CandidateAt(n) \notin registry)
          => cache_from = <<>>

C3_Witness ==
    /\ pc = "done"
    /\ i = 2
    /\ cache_from = << CandidateAt(2) >>
    /\ CandidateAt(1) # CandidateAt(2)

(***************************************************************************)
(* C4 as stated: when no candidate exists the loop tries the commit        *)
(* indices 1 through 100 and then goes on to the primary build with an     *)
(* empty cache list.                                                       *)
(***************************************************************************)
ProbeExhausted ==
    /\ cache_from = <<>>
    /\ pc # "probe"
    /\ error \notin {"ParserError", "APIError"}

C4_HundredAttempts ==
    ProbeExhausted => i = 100

(***************************************************************************)
(* C4 amended: the loop is bounded to 99 attempts: when no candidate       *)
(* exists and no lookup raises it tries the commit indices 1 through 99    *)
(* and then goes on to the primary build with an empty cache list.         *)
(***************************************************************************)
C4_NinetyNineAttempts ==
    /\ pc = "probe" => (i < 99 /\ cache_from = <<>>)
    /\ ProbeExhausted => i = 99
    /\ i <= 99

C4_Witness ==
    /\ pc = "build"
    /\ cache_from = <<>>
    /\ i = 99

(***************************************************************************)
(* C5: when a verify script exists for the image, it is run in a container *)
(* of the built primary image right after the primary build and before the *)
(* onbuild build, on both build paths; without one no verify container is  *)
(* run.  The docker_build path never runs it.                              *)
(***************************************************************************)
HasVerify == (Image \o "/binder/verify") \in fs

C5_VerifyOnBothPaths ==
    /\ \A k \in Calls(IsPrimaryBuild) :
          (calls[k].ok /\ HasVerify /\ (pc \in {"onbuild", "done"} \/ Len(calls) > k)) =>
              /\ Len(calls) > k
              /\ IsVerifyRun(calls[k + 1])
              /\ calls[k + 1].command[5] = BuiltSpec(calls[k])
    /\ ~HasVerify => Calls(IsVerifyRun) = {}

(***************************************************************************)
(* C6 as stated: a registry lookup that fails, with image not found or     *)
(* with a registry API error, reports the candidate as absent and does not *)
(* abort the run.                                                          *)
(***************************************************************************)
ReportedAbsent(spec) == \E k \in 1..Len(lru) : lru[k] = <<spec, "False">>

C6_AnyFailureFallsBack ==
    response.kind \in {"ImageNotFound", "APIError"} =>
        /\ error # "APIError"
        /\ ReportedAbsent(response.image_spec)

(***************************************************************************)
(* C6 amended: a lookup that fails with image not found, or with an API    *)
(* error whose explanation starts with 'manifest unknown: ', reports the   *)
(* candidate as absent and does not abort the run, and the primary build   *)
(* takes place; any other API error is raised again and ends the run       *)
(* before anything is pulled or built.                                     *)
(***************************************************************************)
IsFallback(r) ==
    \/ r.kind = "ImageNotFound"
    \/ r.kind = "APIError" /\ r.explanation = "manifest unknown: manifest unknown"

IsOtherApiError(r) ==
    r.kind = "APIError" /\ r.explanation = "unauthorized: authentication required"

C6_FallbackOrRaise ==
    /\ IsFallback(response) =>
          /\ error # "APIError"
          /\ ReportedAbsent(response.image_spec)
    /\ IsOtherApiError(response) =>
          /\ error = "APIError"
          /\ pc = "failed"
          /\ calls = <<>>
    /\ error = "APIError" => IsOtherApiError(response)

C6_Witness ==
    /\ pc = "done"
    /\ response.kind = "APIError"
    /\ \E k \in Calls(IsR2dBuild) : calls[k].r2d.cache_from = <<>>

(***************************************************************************)
(* C7: the onbuild image is built last, after the primary build (and the   *)
(* verification, when it runs) succeeded, from the directory 'onbuild',    *)
(* with BASE_IMAGE_SPEC equal to the primary image spec built in this run. *)
(***************************************************************************)
C7_OnbuildLastOnPrimary ==
    \A k \in Calls(IsOnbuildBuild) :
        /\ k = Len(calls)
        /\ \A j \in 1..(k - 1) : calls[j].ok
        /\ Cardinality(Calls(IsPrimaryBuild)) = 1
        /\ \A j \in Calls(IsPrimaryBuild) :
              /\ j < k
              /\ BuiltSpec(calls[j]) = image_name \o ":" \o calver
              /\ calls[k].command =
                    << "docker", "build", "-t", image_name \o "-onbuild:" \o calver,
                       "-f", "onbuild/Dockerfile",
                       "--build-arg", "BASE_IMAGE_SPEC=" \o BuiltSpec(calls[j]),
                       "onbuild" >>
        /\ \A j \in Calls(IsVerifyRun) : j < k

C7_Witness ==
    /\ pc = "done"
    /\ Calls(IsOnbuildBuild) # {}
    /\ Calls(IsVerifyRun) # {}

(***************************************************************************)
(* Reading a version tag back: its fields, and the day it denotes counted  *)
(* in days since 1 January 2019.                                           *)
(***************************************************************************)
IsDigit(c) == \E n \in 0..9 : ToString(n) = c

DigitValue(c) == CHOOSE n \in 0..9 : ToString(n) = c

RECURSIVE Number(_)
Number(s) ==
    IF Len(s) = 0 THEN 0
    ELSE Number(SubSeq(s, 1, Len(s) - 1)) * 10 + DigitValue(SubSeq(s, Len(s), Len(s)))

WellFormedTag(tag) ==
    /\ Len(tag) = 10
    /\ \A k \in 1..10 :
          IF k \in {5, 8} THEN SubSeq(tag, k, k) = "."
          ELSE IsDigit(SubSeq(tag, k, k))

TagFields(tag) ==
    [year  |-> Number(SubSeq(tag, 1, 4)),
     month |-> Number(SubSeq(tag, 6, 7)),
     day   |-> Number(SubSeq(tag, 9, 10))]

DaysBeforeMonth == <<0, 31, 59, 90, 120, 151, 181, 212, 243, 273, 304, 334>>

LeapDaysSince(y) ==
    Cardinality({ yy \in 2019..(y - 1) :
                    (yy % 4 = 0 /\ yy % 100 # 0) \/ yy % 400 = 0 })

DayNumber(y, m, d) ==
    (y - 2019) * 365 + LeapDaysSince(y) + DaysBeforeMonth[m]
        + (IF m > 2 /\ ((y % 4 = 0 /\ y % 100 # 0) \/ y % 400 = 0) THEN 1 ELSE 0)
        + (d - 1)

\* The instant a date denotes, in minutes since the epoch, UTC.
Instant(d) ==
    DayNumber(d.year, d.month, d.day) * 1440 + d.hour * 60 + d.minute - d.utcoffset

\* tag is the UTC calendar day that holds the instant of d.
TagIsUtcDayOf(tag, d) ==
    /\ WellFormedTag(tag)
    /\ TagFields(tag).month \in 1..12
    /\ LET f == TagFields(tag)
           start == DayNumber(f.year, f.month, f.day) * 1440
       IN  start <= Instant(d) /\ Instant(d) < start + 1440

SpecHasName(spec, name) ==
    /\ Len(spec) > Len(name)
    /\ SubSeq(spec, 1, Len(name)) = name

SpecRest(spec, name) == SubSeq(spec, Len(name) + 1, Len(spec))

ExpectedPrefix ==
    IF \E k \in 1..(Len(argv) - 1) : argv[k] = "--image-prefix"
    THEN argv[(CHOOSE k \in 1..(Len(argv) - 1) : argv[k] = "--image-prefix") + 1]
    ELSE "pangeo/"

(***************************************************************************)
(* C8: the image name is the prefix (default 'pangeo/') followed by the    *)
(* subdirectory name; the version tag is today's UTC date as YYYY.MM.DD,   *)
(* computed once; the primary image is '<image_name>:<tag>' and the        *)
(* onbuild image '<image_name>-onbuild:<tag>' with the same tag; and every *)
(* cache candidate is '<image_name>:<tag of the commit date in UTC>'.      *)
(***************************************************************************)
C8_ConsistentNaming ==
    /\ image_name = ExpectedPrefix \o Image
    /\ existing_image_spec # "" =>
          /\ \E n \in 1..Len(commits) : date = commits[n]
          /\ SpecHasName(existing_image_spec, image_name \o ":")
          /\ TagIsUtcDayOf(SpecRest(existing_image_spec, image_name \o ":"), date)
    /\ calver # "" =>
          \E now \in ClockReadings : TagIsUtcDayOf(calver, now)
    /\ \A k \in Calls(IsPrimaryBuild) :
          BuiltSpec(calls[k]) = image_name \o ":" \o calver
    /\ \A k \in Calls(IsOnbuildBuild) :
          BuiltSpec(calls[k]) = image_name \o "-onbuild:" \o calver

C8_Witness ==
    /\ pc = "done"
    /\ existing_image_spec = "quay.io/pangeo/base-notebook:2020.01.01"
    /\ date.day = 31
    /\ calver = "2020.03.01"

(***************************************************************************)
(* C9: a failing subprocess ends the run: a failed 'docker pull' is        *)
(* followed by no build, a failed primary build by neither verification    *)
(* nor the onbuild build, a failed verification by no onbuild build.       *)
(***************************************************************************)
C9_FailureAborts ==
    \A k \in 1..Len(calls) :
        ~calls[k].ok =>
            /\ k = Len(calls)
            /\ pc = "failed"
            /\ error # ""

C9_Witness ==
    /\ Len(calls) = 3
    /\ IsPull(calls[1])
    /\ IsR2dBuild(calls[2])
    /\ IsVerifyRun(calls[3])
    /\ ~calls[3].ok

(***************************************************************************)
(* C10: within a run the registry is asked at most once for each distinct  *)
(* candidate image spec: a repeated spec is answered from the cache, so    *)
(* the number of requests is at most the number of distinct candidate      *)
(* tags.                                                                   *)
(***************************************************************************)
CandidateTags == { CandidateAt(n) : n \in 1..Len(commits) }

C10_OneRequestPerSpec ==
    /\ \A j, k \in 1..Len(requests) : requests[j] = requests[k] => j = k
    /\ Len(requests) <= Cardinality(CandidateTags)

C10_Witness ==
    /\ pc = "build"
    /\ i = 99
    /\ Len(commits) = 2
    /\ commits[1] # commits[2]
    /\ Len(requests) = 1

====
